---- MODULE Spec2Model ----
(***************************************************************************)
(* State-machine model of the <liquid-glass> custom element                *)
(* (src/liquid-glass.js): construction and capability probe, connection,   *)
(* attribute edits, frame-coalesced resize handling and the filter update  *)
(* cycle (_updateFilter) with its cache key and style publication.         *)
(*                                                                         *)
(* Numbers.  Attribute values are strings, modelled as sequences of        *)
(* one-character strings over the alphabet digits, "-", "+", " " and       *)
(* letters; parseFloat turns them into integers or NaN.  Measured box      *)
(* sizes are fractional pixels, modelled in tenths of a pixel.             *)
(***************************************************************************)
EXTENDS Integers, Sequences, FiniteSets, TLC

(***************************************************************************)
(* Bounds of the model.                                                    *)
(***************************************************************************)
\* largest whole-pixel box dimension the layout may take
MaxPx == 1
\* largest number of resize signals counted between two frames
MaxSignals == 2
\* largest number of attributes the host carries at once
MaxAttributes == 1
\* largest number of further instances constructed in the process
MaxInstances == 3

(***************************************************************************)
(* JavaScript values: undefined, NaN, finite integers, +/-Infinity.        *)
(***************************************************************************)
Undefined == [t |-> "undefined", v |-> 0]
NaN == [t |-> "nan", v |-> 0]
Num(n) == [t |-> "number", v |-> n]
Infinity(sign) == [t |-> "inf", v |-> sign]

IsNum(a) == a.t = "number"

\* a !== b
StrictNotEqual(a, b) ==
  \/ a.t # b.t
  \/ a.t = "nan"
  \/ a.v # b.v

\* a > 0
GreaterThanZero(a) ==
  \/ a.t = "number" /\ a.v > 0
  \/ a.t = "inf" /\ a.v > 0

\* a <= 0
AtMostZero(a) ==
  \/ a.t = "number" /\ a.v <= 0
  \/ a.t = "inf" /\ a.v < 0

\* a + b on finite numbers and NaN
Plus(a, b) ==
  IF IsNum(a) /\ IsNum(b) THEN Num(a.v + b.v) ELSE NaN

\* a * k for an integer literal k
Times(a, k) ==
  IF IsNum(a) THEN Num(a.v * k) ELSE NaN

\* k - a for an integer literal k
MinusFrom(k, a) ==
  IF IsNum(a) THEN Num(k - a.v) ELSE NaN

(***************************************************************************)
(* Number -> string, as template literals format them.                     *)
(***************************************************************************)
DigitChar(d) ==
  CASE d = 0 -> "0" [] d = 1 -> "1" [] d = 2 -> "2" [] d = 3 -> "3"
    [] d = 4 -> "4" [] d = 5 -> "5" [] d = 6 -> "6" [] d = 7 -> "7"
    [] d = 8 -> "8" [] d = 9 -> "9"

RECURSIVE NatToString(_)
NatToString(n) ==
  IF n < 10 THEN DigitChar(n)
  ELSE NatToString(n \div 10) \o DigitChar(n % 10)

NumberToString(a) ==
  CASE a.t = "undefined" -> "undefined"
    [] a.t = "nan" -> "NaN"
    [] a.t = "inf" -> (IF a.v > 0 THEN "Infinity" ELSE "-Infinity")
    [] a.t = "number" ->
         (IF a.v < 0 THEN "-" \o NatToString(0 - a.v) ELSE NatToString(a.v))

(***************************************************************************)
(* parseFloat on a character sequence: skip leading white space, read an   *)
(* optional sign and the longest run of digits; no digit gives NaN.        *)
(***************************************************************************)
Digits == {"0", "1", "2", "3", "4", "5", "6", "7", "8", "9"}

DigitValue(c) ==
  CASE c = "0" -> 0 [] c = "1" -> 1 [] c = "2" -> 2 [] c = "3" -> 3
    [] c = "4" -> 4 [] c = "5" -> 5 [] c = "6" -> 6 [] c = "7" -> 7
    [] c = "8" -> 8 [] c = "9" -> 9

RECURSIVE TrimStart(_)
TrimStart(s) ==
  IF Len(s) > 0 /\ Head(s) = " " THEN TrimStart(Tail(s)) ELSE s

RECURSIVE DigitRun(_)
DigitRun(s) ==
  IF Len(s) > 0 /\ Head(s) \in Digits
    THEN <<Head(s)>> \o DigitRun(Tail(s))
    ELSE <<>>

RECURSIVE DigitsValue(_, _)
DigitsValue(s, acc) ==
  IF Len(s) = 0 THEN acc
  ELSE DigitsValue(Tail(s), acc * 10 + DigitValue(Head(s)))

\* the number a sign and a run of digits denote
NumberFromRun(negative, run) ==
  IF Len(run) = 0 THEN NaN
  ELSE Num(IF negative THEN 0 - DigitsValue(run, 0) ELSE DigitsValue(run, 0))

HasSign(t) == Len(t) > 0 /\ Head(t) \in {"-", "+"}

\* parseFloat on a string without leading white space
ParseTrimmed(t) ==
  NumberFromRun(HasSign(t) /\ Head(t) = "-",
                DigitRun(IF HasSign(t) THEN Tail(t) ELSE t))

ParseFloat(chars) == ParseTrimmed(TrimStart(chars))

(***************************************************************************)
(* Attributes: absent (getAttribute gives null) or a string.               *)
(***************************************************************************)
Null == [has |-> FALSE, s |-> <<>>]
Str(s) == [has |-> TRUE, s |-> s]

\* truthiness of what getAttribute returns: null and "" are falsy
Truthy(value) == value.has /\ Len(value.s) > 0

DefaultDepth == 10
DefaultStrength == 100
DefaultChromatic == 0
DefaultBlur == 2

\* value ? parseFloat(value) : defaultValue
GetNumberAttribute(attributes, name, defaultValue) ==
  IF Truthy(attributes[name]) THEN ParseFloat(attributes[name].s)
  ELSE Num(defaultValue)

(***************************************************************************)
(* CSS values written to the style channel.                                *)
(***************************************************************************)
NoRef == [none |-> TRUE]
Unset == [kind |-> "unset", text |-> "", ref |-> NoRef]
Text(s) == [kind |-> "text", text |-> s, ref |-> NoRef]
Url(f) == [kind |-> "url", text |-> "", ref |-> f]

StyleProps == {"--lg-blur", "--lg-filter", "--lg-opacity", "--lg-scale"}

SetProperty(prop, val) == [op |-> "set", prop |-> prop, val |-> val]
RemoveProperty(prop) == [op |-> "remove", prop |-> prop, val |-> Unset]

RECURSIVE ApplyWrites(_, _)
ApplyWrites(st, ws) ==
  IF Len(ws) = 0 THEN st
  ELSE ApplyWrites([st EXCEPT ![Head(ws).prop] = Head(ws).val], Tail(ws))

(***************************************************************************)
(* Displacement map and filter (the interpolated values of the two SVG     *)
(* templates, kept as fields).                                              *)
(***************************************************************************)
Radius == 16

\* variant: the inset is rounded down
GradientStartFloor(radius, extent) ==
  IF extent = 0 THEN Infinity(1)
  ELSE Num((radius * 15) \div extent)

\* Math.ceil((radius / extent) * 15)
GradientStart(radius, extent) ==
  IF extent = 0 THEN Infinity(1)
  ELSE Num((radius * 15 + extent - 1) \div extent)

\* Math.floor(100 - (radius / extent) * 15)
GradientEnd(radius, extent) ==
  IF extent = 0 THEN Infinity(-1)
  ELSE Num(100 - ((radius * 15 + extent - 1) \div extent))

GetDisplacementMap(id, height, width, radius, depth) ==
  [ height |-> height, width |-> width,
    yId |-> "Y-" \o id,
    y1 |-> GradientStart(radius, height),
    y2 |-> GradientEnd(radius, height),
    xId |-> "X-" \o id,
    x1 |-> GradientStart(radius, width),
    x2 |-> GradientEnd(radius, width),
    rectX |-> depth, rectY |-> depth,
    rectHeight |-> MinusFrom(height, Times(depth, 2)),
    rectWidth |-> MinusFrom(width, Times(depth, 2)),
    rx |-> radius, ry |-> radius,
    rectBlur |-> depth ]

\* feColorMatrix values that keep one colour channel and the alpha
RedOnly == << <<1, 0, 0, 0, 0>>, <<0, 0, 0, 0, 0>>, <<0, 0, 0, 0, 0>>,
              <<0, 0, 0, 1, 0>> >>
GreenOnly == << <<0, 0, 0, 0, 0>>, <<0, 1, 0, 0, 0>>, <<0, 0, 0, 0, 0>>,
                <<0, 0, 0, 1, 0>> >>
BlueOnly == << <<0, 0, 0, 0, 0>>, <<0, 0, 0, 0, 0>>, <<0, 0, 1, 0, 0>>,
               <<0, 0, 0, 1, 0>> >>

\* variant: the red and the blue pass take each other's scale
GetDisplacementFilterSwappedScales(id, height, width, radius, depth, strength, chromaticAberration) ==
  [ height |-> height, width |-> width,
    filterId |-> "displace-" \o id,
    feImage |-> GetDisplacementMap(id, height, width, radius, depth),
    passes |-> << [scale |-> strength,
                   matrix |-> RedOnly, result |-> "displacedR"],
                  [scale |-> Plus(strength, chromaticAberration),
                   matrix |-> GreenOnly, result |-> "displacedG"],
                  [scale |-> Plus(strength, Times(chromaticAberration, 2)),
                   matrix |-> BlueOnly, result |-> "displacedB"] >>,
    blends |-> << [in |-> "displacedR", in2 |-> "displacedG", mode |-> "screen"],
                  [in |-> "previous", in2 |-> "displacedB", mode |-> "screen"] >>,
    fragment |-> "#displace-" \o id ]

GetDisplacementFilter(id, height, width, radius, depth, strength, chromaticAberration) ==
  [ height |-> height, width |-> width,
    filterId |-> "displace-" \o id,
    feImage |-> GetDisplacementMap(id, height, width, radius, depth),
    passes |-> << [scale |-> Plus(strength, Times(chromaticAberration, 2)),
                   matrix |-> RedOnly, result |-> "displacedR"],
                  [scale |-> Plus(strength, chromaticAberration),
                   matrix |-> GreenOnly, result |-> "displacedG"],
                  [scale |-> strength,
                   matrix |-> BlueOnly, result |-> "displacedB"] >>,
    blends |-> << [in |-> "displacedR", in2 |-> "displacedG", mode |-> "screen"],
                  [in |-> "previous", in2 |-> "displacedB", mode |-> "screen"] >>,
    fragment |-> "#displace-" \o id ]

(***************************************************************************)
(* The update cycle, _updateFilter(force).                                 *)
(***************************************************************************)
KeyUndefined == [def |-> FALSE, s |-> ""]
KeyOf(s) == [def |-> TRUE, s |-> s]
EmptyPrev == [key |-> KeyUndefined, blur |-> Undefined]

\* (href or interactive) and not disabled
IsInteractive(attributes) ==
  /\ attributes["href"].has \/ attributes["interactive"].has
  /\ ~attributes["disabled"].has

\* variant: only the width is tested
ZeroSizeWidthOnly(rect) == rect.width = 0

\* !rect.width || !rect.height
ZeroSize(rect) == rect.width = 0 \/ rect.height = 0

\* Math.round of a non-negative length given in tenths of a pixel
MathRound(tenths) == (tenths + 5) \div 10

\* variant: the key leaves out the chromatic aberration
CacheKeyWithoutChromatic(width, height, depth, strength, chromaticAberration) ==
  NatToString(width) \o "x" \o NatToString(height) \o ":" \o
  NumberToString(depth) \o ":" \o NumberToString(strength)

\* `${width}x${height}:${depth}:${strength}:${chromaticAberration}`
CacheKey(width, height, depth, strength, chromaticAberration) ==
  NatToString(width) \o "x" \o NatToString(height) \o ":" \o
  NumberToString(depth) \o ":" \o NumberToString(strength) \o ":" \o
  NumberToString(chromaticAberration)

\* this._prev.blur !== blur
BlurChanged(previous, blur) == StrictNotEqual(previous.blur, blur)

\* variant: the stored record itself is compared with the key string
SkipRegenerationNever(force, previous, key) == FALSE

\* variant: the force argument is not consulted
SkipRegenerationIgnoringForce(force, previous, key) ==
  previous.key.def /\ previous.key.s = key

\* !force && this._prev.key === key
SkipRegeneration(force, previous, key) ==
  ~force /\ previous.key.def /\ previous.key.s = key

\* variant: both magnitudes must be positive
UseAdvancedFilterBoth(supported, strength, chromaticAberration) ==
  supported /\ GreaterThanZero(strength) /\ GreaterThanZero(chromaticAberration)

\* variant: the capability flag is not consulted
UseAdvancedFilterUngated(supported, strength, chromaticAberration) ==
  GreaterThanZero(strength) \/ GreaterThanZero(chromaticAberration)

\* this._advSupported && (strength > 0 || chromaticAberration > 0)
UseAdvancedFilter(supported, strength, chromaticAberration) ==
  supported /\ (GreaterThanZero(strength) \/ GreaterThanZero(chromaticAberration))

NoTuple == [def |-> FALSE, width |-> 0, height |-> 0, depth |-> Undefined,
            strength |-> Undefined, chromaticAberration |-> Undefined]

\* the --lg-blur write of a cycle, if any
BlurWrites(previous, blur) ==
  IF BlurChanged(previous, blur)
    THEN << SetProperty("--lg-blur", Text(NumberToString(blur) \o "px")) >>
    ELSE << >>

\* the --lg-opacity / --lg-scale writes of a cycle
StateWrites(interactive) ==
  IF interactive
    THEN << SetProperty("--lg-opacity", Text("0.85")),
            SetProperty("--lg-scale", Text("1")) >>
    ELSE << RemoveProperty("--lg-opacity"), RemoveProperty("--lg-scale") >>

\* variant: each regeneration derives a new identifier from the box size
FilterWritesFreshId(supported, id, height, width, radius, depth, strength, chromaticAberration) ==
  IF UseAdvancedFilter(supported, strength, chromaticAberration)
    THEN << SetProperty("--lg-filter",
              Url(GetDisplacementFilter(id \o "-" \o NatToString(height),
                                        height, width, radius, depth,
                                        strength, chromaticAberration))) >>
    ELSE << SetProperty("--lg-filter", Text("none")) >>

\* variant: without an advanced filter to apply, --lg-filter is left alone
FilterWritesAdvancedOnly(supported, id, height, width, radius, depth, strength, chromaticAberration) ==
  IF UseAdvancedFilter(supported, strength, chromaticAberration)
    THEN << SetProperty("--lg-filter",
              Url(GetDisplacementFilter(id, height, width, radius, depth,
                                        strength, chromaticAberration))) >>
    ELSE << >>

\* the --lg-filter write of a regenerating cycle
FilterWrites(supported, id, height, width, radius, depth, strength, chromaticAberration) ==
  IF UseAdvancedFilter(supported, strength, chromaticAberration)
    THEN << SetProperty("--lg-filter",
              Url(GetDisplacementFilter(id, height, width, radius, depth,
                                        strength, chromaticAberration))) >>
    ELSE << SetProperty("--lg-filter", Text("none")) >>

\* _updateFilter from the blur test on, with the size, the parameters and
\* the key resolved
Publish(previous, supported, id, force, interactive, height, width, radius, depth, strength, chromaticAberration, blur, key) ==
  [ prev |-> IF SkipRegeneration(force, previous, key) THEN previous
             ELSE [key |-> KeyOf(key), blur |-> blur],
    writes |-> BlurWrites(previous, blur) \o StateWrites(interactive) \o
                 (IF SkipRegeneration(force, previous, key) THEN << >>
                  ELSE FilterWrites(supported, id, height, width, radius,
                                    depth, strength, chromaticAberration)),
    aborted |-> FALSE, force |-> force,
    tuple |-> [def |-> TRUE, width |-> width, height |-> height,
               depth |-> depth, strength |-> strength,
               chromaticAberration |-> chromaticAberration],
    blur |-> blur, key |-> KeyOf(key),
    keyEqual |-> (previous.key.def /\ previous.key.s = key),
    regenerated |-> ~SkipRegeneration(force, previous, key) ]

\* _updateFilter after the size test, with the size and the parameters
\* resolved: builds the key
Resolve(previous, supported, id, force, interactive, height, width, radius, depth, strength, chromaticAberration, blur) ==
  Publish(previous, supported, id, force, interactive, height, width, radius,
          depth, strength, chromaticAberration, blur,
          CacheKey(width, height, depth, strength, chromaticAberration))

\* variant: a changed blur also forces the regeneration
UpdateFilterRegeneratingOnBlur(attributes, rect, previous, supported, id, force) ==
  IF ZeroSize(rect) THEN
    [ prev |-> previous, writes |-> << >>, aborted |-> TRUE, force |-> force,
      tuple |-> NoTuple, blur |-> Undefined, key |-> KeyUndefined,
      keyEqual |-> FALSE, regenerated |-> FALSE ]
  ELSE
    Resolve(previous, supported, id,
            force \/ BlurChanged(previous,
                       GetNumberAttribute(attributes, "blur", DefaultBlur)),
            IsInteractive(attributes),
            MathRound(rect.height), MathRound(rect.width), Radius,
            GetNumberAttribute(attributes, "depth", DefaultDepth),
            GetNumberAttribute(attributes, "strength", DefaultStrength),
            GetNumberAttribute(attributes, "chromatic", DefaultChromatic),
            GetNumberAttribute(attributes, "blur", DefaultBlur))

\* What one call of _updateFilter does: the new _prev, the style writes in
\* order, and what the call resolved (tuple, blur, key, whether the key
\* equalled the stored one, whether it went on to regenerate).  `rect` is
\* what getBoundingClientRect returned.
UpdateFilter(attributes, rect, previous, supported, id, force) ==
  IF ZeroSize(rect) THEN
    [ prev |-> previous, writes |-> << >>, aborted |-> TRUE, force |-> force,
      tuple |-> NoTuple, blur |-> Undefined, key |-> KeyUndefined,
      keyEqual |-> FALSE, regenerated |-> FALSE ]
  ELSE
    Resolve(previous, supported, id, force, IsInteractive(attributes),
            MathRound(rect.height), MathRound(rect.width), Radius,
            GetNumberAttribute(attributes, "depth", DefaultDepth),
            GetNumberAttribute(attributes, "strength", DefaultStrength),
            GetNumberAttribute(attributes, "chromatic", DefaultChromatic),
            GetNumberAttribute(attributes, "blur", DefaultBlur))

(***************************************************************************)
(* Inputs of the environment.                                              *)
(***************************************************************************)
NumericNames == {"strength", "depth", "blur", "chromatic"}
BooleanNames == {"href", "interactive", "disabled"}
AttributeNames == NumericNames \cup BooleanNames

\* values an attribute edit may set (Null is removeAttribute)
AttributeValues(name) ==
  CASE name = "depth" -> {Null, Str(<<"5">>)}
    [] name = "strength" -> {Null, Str(<<"0">>)}
    [] name = "chromatic" -> {Null, Str(<<"4">>)}
    [] name = "blur" -> {Null, Str(<<"3", "p", "x">>)}
    [] OTHER -> {Null, Str(<<>>)}

\* box sizes the layout may produce, in tenths of a pixel: widths 0, 0.3px
\* and the whole pixels up to MaxPx; heights 0, the whole pixels and the
\* half pixels above them
Widths == {0, 3} \cup {10 * k : k \in 1..MaxPx}
Heights == {0} \cup {10 * k : k \in 1..MaxPx} \cup {10 * k + 5 : k \in 1..MaxPx}
NoBox == [width |-> 0, height |-> 0]

\* outcomes of CSS.supports('backdrop-filter', 'url(#x)')
ProbeOutcomes == {"true", "false", "throws"}

\* identifiers `lg-${Math.random().toString(36).slice(2)}` may produce
FilterIds == {"lg-a"}

(***************************************************************************)
(* State.                                                                  *)
(***************************************************************************)
VARIABLES
  classAdvSupported,  \* LiquidGlass._advSupported: "null", "true", "false"
  constructed,        \* the instance exists
  advSupported,       \* this._advSupported
  filterId,           \* this._filterId
  connected,          \* the element is in the document
  resizeObserver,     \* this._resizeObserver: "null", "observing", "disconnected"
  attributes,         \* the host's observed attributes
  host,               \* surface element kind and attached listeners
  rect,               \* the element's layout box (0 x 0 while not in the document)
  pending,            \* this._pending
  rafQueue,           \* frame callbacks requested and not yet run
  prev,               \* this._prev
  style,              \* the custom properties of this.style
  cyc,                \* record of the most recent update cycle
  frame,              \* resize signals delivered since the last frame
  probe,              \* executions of the capability probe in this process
  others,             \* the other instances constructed in this process
  event               \* outcome of the last click / keydown handled

vars == << classAdvSupported, constructed, advSupported, filterId, connected,
           resizeObserver, attributes, host, rect, pending, rafQueue, prev,
           style, cyc, frame, probe, others, event >>

\* no probe ran yet
NoProbe == [calls |-> 0, outcome |-> "none", uncaught |-> FALSE]

\* no event handled yet
NoEvent ==
  [ type |-> "none", key |-> "", handled |-> FALSE, disabled |-> FALSE,
    href |-> FALSE, interactive |-> FALSE, defaultPrevented |-> FALSE,
    propagationStopped |-> FALSE, surfaceClicks |-> 0, hostClicks |-> 0 ]

NoCycle ==
  [ force |-> FALSE, measuredZero |-> FALSE, aborted |-> FALSE,
    tuple |-> NoTuple, blur |-> Undefined, key |-> KeyUndefined,
    keyEqual |-> FALSE, fieldsChanged |-> "none", repeat |-> FALSE,
    sameKey |-> FALSE,
    regenerated |-> FALSE, writes |-> << >>, prevChanged |-> FALSE,
    regenTuple |-> NoTuple ]

Init ==
  /\ classAdvSupported = "null"
  /\ constructed = FALSE
  /\ advSupported = FALSE
  /\ filterId = ""
  /\ connected = FALSE
  /\ resizeObserver = "null"
  /\ attributes = [n \in AttributeNames |-> Null]
  /\ host = [surfaceTag |-> "DIV", keydown |-> FALSE, click |-> FALSE]
  /\ rect = NoBox
  /\ pending = FALSE
  /\ rafQueue = 0
  /\ prev = EmptyPrev
  /\ style = [p \in StyleProps |-> Unset]
  /\ cyc = NoCycle
  /\ frame = [signals |-> 0]
  /\ probe = NoProbe
  /\ others = << >>
  /\ event = NoEvent

(***************************************************************************)
(* Helpers shared by the handlers.                                         *)
(***************************************************************************)
\* getBoundingClientRect(): all zero while the element is not in the document
BoundingClientRect(isConnected, layout) ==
  IF isConnected THEN layout ELSE NoBox

\* CSS.supports('backdrop-filter', 'url(#x)'): returns a boolean or throws
CssSupports(outcome) ==
  [threw |-> outcome = "throws", value |-> outcome = "true"]

\* variant: the call is not wrapped in try/catch
SupportsAdvancedFiltersUncaught(outcome) == CssSupports(outcome)

\* try { return CSS.supports(...) } catch { return false }
SupportsAdvancedFilters(outcome) ==
  IF CssSupports(outcome).threw THEN [threw |-> FALSE, value |-> FALSE]
  ELSE [threw |-> FALSE, value |-> CssSupports(outcome).value]

\* variant: every constructor runs the probe and overwrites the static flag
ClassFlagPerInstance(flag, outcome) ==
  [ flag |-> IF SupportsAdvancedFilters(outcome).threw THEN flag
             ELSE IF SupportsAdvancedFilters(outcome).value THEN "true"
             ELSE "false",
    probed |-> TRUE,
    threw |-> SupportsAdvancedFilters(outcome).threw ]

\* if (LiquidGlass._advSupported == null)
\*   LiquidGlass._advSupported = this._supportsAdvancedFilters();
\* the static flag afterwards, whether the probe ran, whether it threw
ClassFlag(flag, outcome) ==
  IF flag = "null" THEN
    [ flag |-> IF SupportsAdvancedFilters(outcome).threw THEN flag
               ELSE IF SupportsAdvancedFilters(outcome).value THEN "true"
               ELSE "false",
      probed |-> TRUE,
      threw |-> SupportsAdvancedFilters(outcome).threw ]
  ELSE [flag |-> flag, probed |-> FALSE, threw |-> FALSE]

\* the probe record after a constructor ran lines 45-47 with outcome r
ProbeAfter(p, r, outcome) ==
  [ calls |-> IF r.probed THEN p.calls + 1 ELSE p.calls,
    outcome |-> IF r.probed THEN outcome ELSE p.outcome,
    uncaught |-> (p.uncaught \/ r.threw) ]

\* in how many of the five key fields two resolved tuples differ:
\* "none", "one" or "several"
FieldsChanged(t, u) ==
  LET n == Cardinality({f \in {"width", "height", "depth", "strength",
                               "chromaticAberration"} : t[f] # u[f]})
  IN IF n = 0 THEN "none" ELSE IF n = 1 THEN "one" ELSE "several"

\* The instance state s = [prev, style, cyc] after a call of _updateFilter
\* whose measurement was `measured` and whose outcome was r.  The cycle
\* record keeps what the call resolved and did, and how that compares with
\* the state the call started from: whether the measured box was zero-size,
\* in how many fields the tuple differs from the tuple of the last
\* regeneration, whether the cycle before resolved the same tuple and built
\* the same key, whether _prev was replaced.
CycleRecord(s, force, measured, r) ==
  [ prev |-> r.prev,
    style |-> ApplyWrites(s.style, r.writes),
    cyc |->
      [ force |-> force,
        measuredZero |-> (measured.width = 0 \/ measured.height = 0),
        aborted |-> r.aborted, tuple |-> r.tuple, blur |-> r.blur,
        key |-> r.key, keyEqual |-> r.keyEqual,
        fieldsChanged |-> IF r.tuple.def /\ s.cyc.regenTuple.def
                            THEN FieldsChanged(r.tuple, s.cyc.regenTuple)
                            ELSE "none",
        repeat |-> (r.tuple.def /\ r.tuple = s.cyc.tuple),
        sameKey |-> (r.key.def /\ r.key = s.cyc.key),
        regenerated |-> r.regenerated, writes |-> r.writes,
        prevChanged |-> (r.prev # s.prev),
        regenTuple |-> IF r.regenerated THEN r.tuple ELSE s.cyc.regenTuple ] ]

\* One call of this._updateFilter(force) on the instance state
\* s = [prev, style, cyc]; everything else is read only.
Cycle(s, force, attrs, isConnected, layout, supported, id) ==
  CycleRecord(s, force, BoundingClientRect(isConnected, layout),
              UpdateFilter(attrs, BoundingClientRect(isConnected, layout),
                           s.prev, supported, id, force))

\* the instance state now
Instance == [prev |-> prev, style |-> style, cyc |-> cyc]

\* the instance state becomes s
Becomes(s) ==
  /\ prev' = s.prev
  /\ style' = s.style
  /\ cyc' = s.cyc

\* _syncSurface()
SyncSurface(attrs, h) ==
  LET needsAnchor == attrs["href"].has
      isAnchor == h.surfaceTag = "A"
      swapped == (needsAnchor /\ ~isAnchor) \/ (~needsAnchor /\ isAnchor)
  IN [ h EXCEPT
         !.surfaceTag = IF needsAnchor THEN "A" ELSE "DIV",
         !.click = IF swapped THEN TRUE ELSE @ ]

\* variant: every signal requests a frame
ResizeObserverCallbackUnguarded(isPending, queued) ==
  [pending |-> TRUE, rafQueue |-> queued + 1]

\* The ResizeObserver callback: `if (this._pending) return;` then set the
\* flag and request one animation frame.
ResizeObserverCallback(isPending, queued) ==
  IF isPending THEN [pending |-> isPending, rafQueue |-> queued]
  ELSE [pending |-> TRUE, rafQueue |-> queued + 1]

\* The frame runs every requested callback: each clears the flag and calls
\* this._updateFilter() (force defaults to false).
RECURSIVE RunFrameCallbacks(_, _, _, _, _, _, _)
RunFrameCallbacks(s, n, attrs, isConnected, layout, supported, id) ==
  IF n = 0 THEN s
  ELSE RunFrameCallbacks(
         Cycle(s, FALSE, attrs, isConnected, layout, supported, id),
         n - 1, attrs, isConnected, layout, supported, id)

(***************************************************************************)
(* Actions.                                                                *)
(***************************************************************************)
\* constructor()
Constructor(outcome, id) ==
  /\ ~constructed
  /\ probe.calls <= MaxInstances
  /\ classAdvSupported' = ClassFlag(classAdvSupported, outcome).flag
  /\ probe' = ProbeAfter(probe, ClassFlag(classAdvSupported, outcome), outcome)
  /\ IF ClassFlag(classAdvSupported, outcome).threw
       THEN \* the exception leaves the constructor: no instance
            UNCHANGED << constructed, host, resizeObserver, pending, prev,
                         advSupported, filterId >>
       ELSE /\ constructed' = TRUE
            /\ host' = [surfaceTag |-> "DIV", keydown |-> FALSE,
                        click |-> FALSE]
            /\ resizeObserver' = "null"
            /\ pending' = FALSE
            /\ prev' = EmptyPrev
            /\ advSupported' = (classAdvSupported' = "true")
            /\ filterId' = id
  /\ UNCHANGED << connected, attributes, rect, rafQueue, style, cyc, frame,
                  others, event >>

\* new LiquidGlass() for a further instance of the process: the same lines
\* 44-51, kept as the pair (this._advSupported, this._filterId)
ConstructOther(outcome, id) ==
  /\ Len(others) < MaxInstances
  /\ probe.calls <= MaxInstances
  /\ classAdvSupported' = ClassFlag(classAdvSupported, outcome).flag
  /\ probe' = ProbeAfter(probe, ClassFlag(classAdvSupported, outcome), outcome)
  /\ others' =
       IF ClassFlag(classAdvSupported, outcome).threw THEN others
       ELSE Append(others, [advSupported |-> (classAdvSupported' = "true"),
                            filterId |-> id])
  /\ UNCHANGED << constructed, advSupported, filterId, connected,
                  resizeObserver, attributes, host, rect, pending, rafQueue,
                  prev, style, cyc, frame, event >>

\* the element is inserted and laid out with a w x h box, then
\* connectedCallback()
ConnectedCallback(w, h) ==
  /\ constructed /\ ~connected
  /\ connected' = TRUE
  /\ rect' = [width |-> w, height |-> h]
  /\ host' = [SyncSurface(attributes, host) EXCEPT !.keydown = TRUE,
                                                     !.click = TRUE]
  /\ resizeObserver' = "observing"
  /\ Becomes(Cycle(Instance, FALSE, attributes, TRUE, rect', advSupported,
                   filterId))
  /\ UNCHANGED << classAdvSupported, constructed, advSupported, filterId,
                  attributes, pending, rafQueue, frame >>
  /\ UNCHANGED << probe, others, event >>

\* the element is removed (its box is gone), then disconnectedCallback()
DisconnectedCallback ==
  /\ connected
  /\ connected' = FALSE
  /\ rect' = NoBox
  /\ host' = [host EXCEPT !.keydown = FALSE, !.click = FALSE]
  /\ resizeObserver' =
       IF resizeObserver = "null" THEN "null" ELSE "disconnected"
  /\ UNCHANGED << classAdvSupported, constructed, advSupported, filterId,
                  attributes, pending, rafQueue, prev, style, cyc, frame >>
  /\ UNCHANGED << probe, others, event >>

\* variant: a numeric attribute edit requests a coalesced recompute, as
\* a resize signal does
AttributeChangedCoalesced(name, newValue) ==
  /\ constructed
  /\ attributes[name].has \/ newValue.has
  /\ attributes' = [attributes EXCEPT ![name] = newValue]
  /\ host' = SyncSurface(attributes', host)
  /\ IF name \in {"strength", "depth", "blur", "chromatic"}
       THEN /\ pending' = ResizeObserverCallback(pending, rafQueue).pending
            /\ rafQueue' = ResizeObserverCallback(pending, rafQueue).rafQueue
       ELSE UNCHANGED << pending, rafQueue >>
  /\ UNCHANGED << classAdvSupported, constructed, advSupported, filterId,
                  connected, resizeObserver, rect, prev, style, cyc, frame >>
  /\ UNCHANGED << probe, others, event >>

\* setAttribute / removeAttribute on the host, then
\* attributeChangedCallback(name, oldValue, newValue)
AttributeChanged(name, newValue) ==
  /\ constructed
  /\ attributes[name].has \/ newValue.has
  /\ attributes' = [attributes EXCEPT ![name] = newValue]
  /\ host' = SyncSurface(attributes', host)
  /\ IF name \in {"strength", "depth", "blur", "chromatic"}
       THEN Becomes(Cycle(Instance, FALSE, attributes', connected, rect,
                          advSupported, filterId))
       ELSE UNCHANGED << prev, style, cyc >>
  /\ UNCHANGED << classAdvSupported, constructed, advSupported, filterId,
                  connected, resizeObserver, rect, pending, rafQueue, frame >>
  /\ UNCHANGED << probe, others, event >>

\* an attribute edit that keeps the host within MaxAttributes attributes
AttributeChangedCallback(name, newValue) ==
  /\ AttributeChanged(name, newValue)
  /\ Cardinality({n \in AttributeNames : attributes'[n].has}) <= MaxAttributes

\* the layout gives the connected element a new box
Layout(w, h) ==
  /\ connected
  /\ rect' = [width |-> w, height |-> h]
  /\ rect' # rect
  /\ UNCHANGED << classAdvSupported, constructed, advSupported, filterId,
                  connected, resizeObserver, attributes, host, pending,
                  rafQueue, prev, style, cyc, frame >>
  /\ UNCHANGED << probe, others, event >>

\* the resize observer delivers a signal
ResizeSignal ==
  /\ resizeObserver = "observing"
  /\ frame.signals < MaxSignals
  /\ LET r == ResizeObserverCallback(pending, rafQueue)
     IN /\ pending' = r.pending
        /\ rafQueue' = r.rafQueue
  /\ frame' = [frame EXCEPT !.signals = @ + 1]
  /\ UNCHANGED << classAdvSupported, constructed, advSupported, filterId,
                  connected, resizeObserver, attributes, host, rect, prev,
                  style, cyc >>
  /\ UNCHANGED << probe, others, event >>

\* variant: the frame callback does not clear the pending flag
FrameKeepingPending ==
  /\ constructed
  /\ Becomes(RunFrameCallbacks(Instance, rafQueue, attributes, connected,
                               rect, advSupported, filterId))
  /\ pending' = pending
  /\ rafQueue' = 0
  /\ frame' = [signals |-> 0]
  /\ UNCHANGED << classAdvSupported, constructed, advSupported, filterId,
                  connected, resizeObserver, attributes, host, rect >>
  /\ UNCHANGED << probe, others, event >>

\* a rendering frame: the requested animation-frame callbacks run
Frame ==
  /\ constructed
  /\ Becomes(RunFrameCallbacks(Instance, rafQueue, attributes, connected,
                               rect, advSupported, filterId))
  /\ pending' = IF rafQueue > 0 THEN FALSE ELSE pending
  /\ rafQueue' = 0
  /\ frame' = [signals |-> 0]
  /\ UNCHANGED << classAdvSupported, constructed, advSupported, filterId,
                  connected, resizeObserver, attributes, host, rect >>
  /\ UNCHANGED << probe, others, event >>

\* an explicit forced refresh: this._updateFilter(true)
ForcedRefresh ==
  /\ constructed
  /\ Becomes(Cycle(Instance, TRUE, attributes, connected, rect,
                   advSupported, filterId))
  /\ UNCHANGED << classAdvSupported, constructed, advSupported, filterId,
                  connected, resizeObserver, attributes, host, rect, pending,
                  rafQueue, frame >>
  /\ UNCHANGED << probe, others, event >>

\* variant: the disabled attribute is not consulted
OnClickIgnoringDisabled(attrs, targetIsHost) ==
  [ defaultPrevented |-> FALSE, propagationStopped |-> FALSE,
    hostClicks |-> IF targetIsHost THEN 0 ELSE 1 ]

\* _onClick(ev): what happens to the event and how many clicks are
\* dispatched on the host
OnClick(attrs, targetIsHost) ==
  IF attrs["disabled"].has
    THEN [ defaultPrevented |-> TRUE, propagationStopped |-> TRUE,
           hostClicks |-> 0 ]
    ELSE [ defaultPrevented |-> FALSE, propagationStopped |-> FALSE,
           hostClicks |-> IF targetIsHost THEN 0 ELSE 1 ]

\* _onKeyDown(ev): whether the key event is default-prevented and how many
\* clicks the handler dispatches on the surface
OnKeyDown(attrs, key) ==
  IF attrs["disabled"].has
    THEN [defaultPrevented |-> FALSE, surfaceClicks |-> 0]
  ELSE IF ~attrs["href"].has /\ attrs["interactive"].has /\
          key \in {"Enter", " "}
    THEN [defaultPrevented |-> TRUE, surfaceClicks |-> 1]
  ELSE IF attrs["href"].has /\ key = "Enter"
    THEN [defaultPrevented |-> TRUE, surfaceClicks |-> 1]
  ELSE [defaultPrevented |-> FALSE, surfaceClicks |-> 0]

\* keys a keydown may carry
Keys == {"Enter", " ", "a"}

\* what a click in the element lands on: the surface itself or slotted
\* content (neither is the host)
ClickTargets == {"surface", "content"}

\* a click event reaches the surface of the connected element; the surface's
\* click listener, if attached, runs _onClick
Click(target) ==
  /\ constructed /\ connected
  /\ event' =
       [ type |-> "click", key |-> "", handled |-> host.click,
         disabled |-> attributes["disabled"].has,
         href |-> attributes["href"].has,
         interactive |-> attributes["interactive"].has,
         defaultPrevented |->
           (host.click /\ OnClick(attributes, target = "host").defaultPrevented),
         propagationStopped |->
           (host.click /\ OnClick(attributes, target = "host").propagationStopped),
         surfaceClicks |-> 0,
         hostClicks |-> IF host.click
                          THEN OnClick(attributes, target = "host").hostClicks
                          ELSE 0 ]
  /\ UNCHANGED << classAdvSupported, constructed, advSupported, filterId,
                  connected, resizeObserver, attributes, host, rect, pending,
                  rafQueue, prev, style, cyc, frame, probe, others >>

\* a keydown event reaches the connected host; the host's keydown listener,
\* if attached, runs _onKeyDown, and each click it dispatches on the surface
\* runs the surface's click listener (_onClick) before it returns
KeyDown(key) ==
  /\ constructed /\ connected
  /\ event' =
       [ type |-> "keydown", key |-> key, handled |-> host.keydown,
         disabled |-> attributes["disabled"].has,
         href |-> attributes["href"].has,
         interactive |-> attributes["interactive"].has,
         defaultPrevented |->
           (host.keydown /\ OnKeyDown(attributes, key).defaultPrevented),
         propagationStopped |-> FALSE,
         surfaceClicks |-> IF host.keydown
                             THEN OnKeyDown(attributes, key).surfaceClicks
                             ELSE 0,
         hostClicks |-> IF host.keydown /\ host.click
                          THEN OnKeyDown(attributes, key).surfaceClicks *
                               OnClick(attributes, FALSE).hostClicks
                          ELSE 0 ]
  /\ UNCHANGED << classAdvSupported, constructed, advSupported, filterId,
                  connected, resizeObserver, attributes, host, rect, pending,
                  rafQueue, prev, style, cyc, frame, probe, others >>

Next ==
  \/ \E outcome \in ProbeOutcomes, id \in FilterIds : Constructor(outcome, id)
  \/ \E w \in Widths, h \in Heights : ConnectedCallback(w, h)
  \/ DisconnectedCallback
  \/ \E name \in AttributeNames :
       \E newValue \in AttributeValues(name) :
         AttributeChangedCallback(name, newValue)
  \/ \E w \in Widths, h \in Heights : Layout(w, h)
  \/ ResizeSignal
  \/ Frame
  \/ ForcedRefresh

Spec == Init /\ [][Next]_vars

(***************************************************************************)
(* The process-wide capability flag: any number of instances constructed,  *)
(* in any order, each with whatever the probe would answer at that time.   *)
(***************************************************************************)
\* identifiers the instances of one page draw
ClassIds == {"lg-a", "lg-b", "lg-c"}

NextClass ==
  \/ \E outcome \in ProbeOutcomes, id \in ClassIds : Constructor(outcome, id)
  \/ \E outcome \in ProbeOutcomes, id \in ClassIds : ConstructOther(outcome, id)

SpecClass == Init /\ [][NextClass]_vars

(***************************************************************************)
(* Parameter resolution on its own: the element as the parser leaves it,   *)
(* constructed with any combination of numeric attribute values (each      *)
(* attributeChangedCallback ran its cycle on the unconnected, zero-size    *)
(* element), then connected and refreshed.                                 *)
(***************************************************************************)
ResolveValues ==
  { Null, Str(<< >>), Str(<<"0">>), Str(<<"a">>), Str(<<"7", "p", "x">>) }

InitResolve ==
  /\ classAdvSupported \in {"true", "false"}
  /\ constructed = TRUE
  /\ advSupported = (classAdvSupported = "true")
  /\ filterId \in FilterIds
  /\ connected = FALSE
  /\ resizeObserver = "null"
  /\ \E numeric \in [NumericNames -> ResolveValues] :
       attributes = [n \in AttributeNames |->
                       IF n \in NumericNames THEN numeric[n] ELSE Null]
  /\ host = [surfaceTag |-> "DIV", keydown |-> FALSE, click |-> FALSE]
  /\ rect = NoBox
  /\ pending = FALSE
  /\ rafQueue = 0
  /\ prev = EmptyPrev
  /\ style = [p \in StyleProps |-> Unset]
  /\ cyc = IF \E n \in NumericNames : attributes[n].has
             THEN Cycle([prev |-> EmptyPrev,
                         style |-> [p \in StyleProps |-> Unset],
                         cyc |-> NoCycle],
                        FALSE, attributes, FALSE, NoBox, advSupported,
                        filterId).cyc
             ELSE NoCycle
  /\ frame = [signals |-> 0]
  /\ probe = [calls |-> 1, outcome |-> classAdvSupported, uncaught |-> FALSE]
  /\ others = << >>
  /\ event = NoEvent

NextResolve ==
  \/ \E w \in Widths, h \in Heights : ConnectedCallback(w, h)
  \/ ForcedRefresh

SpecResolve == InitResolve /\ [][NextResolve]_vars

(***************************************************************************)
(* The displacement map's geometry: an element with the capability flag    *)
(* true and any depth, connected and reconnected with boxes of many sizes. *)
(***************************************************************************)
\* box extents in tenths of a pixel: 0.3px and whole pixels around the
\* sizes where radius * 15 / extent is or is not a whole number
GeometryExtents == {3} \cup {10 * k : k \in {1, 15, 16, 100, 200, 240, 241}}

GeometryDepths == {Null, Str(<<"5">>), Str(<<"2", "4">>)}

InitGeometry ==
  /\ classAdvSupported = "true"
  /\ constructed = TRUE
  /\ advSupported = TRUE
  /\ filterId \in FilterIds
  /\ connected = FALSE
  /\ resizeObserver = "null"
  /\ \E depth \in GeometryDepths :
       attributes = [n \in AttributeNames |->
                       IF n = "depth" THEN depth ELSE Null]
  /\ host = [surfaceTag |-> "DIV", keydown |-> FALSE, click |-> FALSE]
  /\ rect = NoBox
  /\ pending = FALSE
  /\ rafQueue = 0
  /\ prev = EmptyPrev
  /\ style = [p \in StyleProps |-> Unset]
  /\ cyc = IF attributes["depth"].has
             THEN Cycle([prev |-> EmptyPrev,
                         style |-> [p \in StyleProps |-> Unset],
                         cyc |-> NoCycle],
                        FALSE, attributes, FALSE, NoBox, advSupported,
                        filterId).cyc
             ELSE NoCycle
  /\ frame = [signals |-> 0]
  /\ probe = [calls |-> 1, outcome |-> "true", uncaught |-> FALSE]
  /\ others = << >>
  /\ event = NoEvent

NextGeometry ==
  \/ \E w \in GeometryExtents, h \in GeometryExtents : ConnectedCallback(w, h)
  \/ DisconnectedCallback

SpecGeometry == InitGeometry /\ [][NextGeometry]_vars

(***************************************************************************)
(* The instance's identifier: an element constructed with any of several   *)
(* identifiers, then connected, resized, edited and refreshed.             *)
(***************************************************************************)
IdentityIds == {"lg-a", "lg-b", "lg-k3x9"}

NextIdentity ==
  \/ \E outcome \in ProbeOutcomes, id \in IdentityIds : Constructor(outcome, id)
  \/ \E h \in Heights : ConnectedCallback(10, h)
  \/ DisconnectedCallback
  \/ \E name \in NumericNames :
       \E newValue \in AttributeValues(name) :
         AttributeChangedCallback(name, newValue)
  \/ \E h \in Heights : Layout(10, h)
  \/ ForcedRefresh

SpecIdentity == Init /\ [][NextIdentity]_vars

(***************************************************************************)
(* Interaction: an element whose href, interactive and disabled attributes *)
(* are set and removed in any combination, connected and disconnected,     *)
(* receiving clicks and key presses.                                       *)
(***************************************************************************)
NextInteraction ==
  \/ \E outcome \in ProbeOutcomes, id \in FilterIds : Constructor(outcome, id)
  \/ ConnectedCallback(10, 10)
  \/ DisconnectedCallback
  \/ \E name \in BooleanNames :
       \E newValue \in AttributeValues(name) : AttributeChanged(name, newValue)
  \/ \E target \in ClickTargets : Click(target)
  \/ \E key \in Keys : KeyDown(key)

SpecInteraction == Init /\ [][NextInteraction]_vars

(***************************************************************************)
(* Resize handling over time: an element connected, resized, disconnected  *)
(* and reconnected while resize signals arrive, where the browser delivers *)
(* every requested animation frame (weak fairness of Frame).               *)
(***************************************************************************)
NextFrames ==
  \/ \E outcome \in ProbeOutcomes, id \in FilterIds : Constructor(outcome, id)
  \/ \E h \in Heights : ConnectedCallback(10, h)
  \/ DisconnectedCallback
  \/ \E h \in Heights : Layout(10, h)
  \/ ResizeSignal
  \/ Frame

SpecFrames == Init /\ [][NextFrames]_vars /\ WF_vars(Frame)

(***************************************************************************)
(* Properties.                                                             *)
(***************************************************************************)
\* positions of the writes to one custom property in a cycle's write log
WritesTo(c, prop) == {i \in 1..Len(c.writes) : c.writes[i].prop = prop}

\* the cycle wrote --lg-filter exactly once
WroteFilterOnce(c) == Cardinality(WritesTo(c, "--lg-filter")) = 1

\* C1: resize coalescing.  A resize signal that arrives while a recompute is
\* scheduled schedules nothing; the first signal after a frame schedules
\* exactly one callback; so the frame that follows N >= 1 signals has exactly
\* one callback to run, runs it (one update cycle) and leaves none scheduled.
C1_ResizeCoalescing ==
  [][ /\ (frame'.signals > frame.signals /\ pending)
        => (rafQueue' = rafQueue /\ pending')
      /\ (frame'.signals > frame.signals /\ ~pending)
        => (rafQueue = 0 /\ rafQueue' = 1 /\ pending')
      /\ (frame.signals >= 1 /\ frame'.signals = 0)
        => (rafQueue = 1 /\ pending /\ rafQueue' = 0 /\ ~pending') ]_vars

\* C1 witness: more than one signal since the last frame, one callback
\* scheduled.
C1_Witness == frame.signals >= 2 /\ rafQueue = 1 /\ pending

\* C2: a non-forced cycle that resolves the same tuple as the cycle before
\* builds the same key and skips: no regeneration, no --lg-filter write, the
\* stored record untouched.
C2_SkipOnUnchangedKey ==
  (cyc.repeat /\ ~cyc.force) =>
    /\ cyc.sameKey
    /\ cyc.keyEqual
    /\ ~cyc.regenerated
    /\ WritesTo(cyc, "--lg-filter") = {}
    /\ ~cyc.prevChanged
    /\ prev.key = cyc.key

\* C2 witness: a skipped repeat on a box of non-zero rounded size.
C2_Witness ==
  /\ cyc.repeat /\ ~cyc.force /\ ~cyc.regenerated
  /\ cyc.tuple.width > 0 /\ cyc.tuple.height > 0

\* C3: a cycle whose tuple differs from the tuple of the last regeneration
\* (in one field or in several) builds a key different from the stored one,
\* regenerates, stores the new key and publishes the filter.
C3_NoFalseSkip ==
  (cyc.fieldsChanged # "none") =>
    /\ ~cyc.keyEqual
    /\ cyc.regenerated
    /\ WroteFilterOnce(cyc)
    /\ prev.key = cyc.key
    /\ cyc.regenTuple = cyc.tuple

\* C3 witness: a non-forced cycle that differs from the last regeneration in
\* exactly one field, and regenerated.
C3_Witness ==
  cyc.fieldsChanged = "one" /\ ~cyc.force /\ cyc.regenerated

\* C4: a forced cycle on a box that is not zero-size regenerates and writes
\* --lg-filter, whether or not the key equals the stored key.
C4_ForcedRefresh ==
  (cyc.force /\ ~cyc.measuredZero) =>
    /\ cyc.regenerated
    /\ WroteFilterOnce(cyc)
    /\ prev.key = cyc.key

\* C4 witness: a forced cycle whose key equalled the stored key, and which
\* regenerated.
C4_Witness ==
  cyc.force /\ cyc.keyEqual /\ cyc.regenerated /\ WroteFilterOnce(cyc)

\* C5: a cycle that measures zero width or zero height writes and removes
\* nothing and leaves the stored record (key and blur) as it was.
C5_DegenerateGeometry ==
  cyc.measuredZero => (cyc.writes = << >> /\ ~cyc.prevChanged)

\* C5 witness: a forced cycle on a connected element whose box has zero
\* height and non-zero width, after a key was stored.
C5_Witness ==
  /\ cyc.measuredZero /\ cyc.force /\ connected
  /\ rect.height = 0 /\ rect.width > 0
  /\ prev.key.def

\* C6: every cycle that goes past the size test has rounded width > 0 and
\* height > 0 (a dimension that rounds to zero aborts the cycle with no
\* write and no stored record), so no stored key and no published filter
\* carries a zero width or height.
C6_QuantizedSize ==
  /\ cyc.tuple.def => (cyc.tuple.width > 0 /\ cyc.tuple.height > 0)
  /\ cyc.regenTuple.def =>
       (cyc.regenTuple.width > 0 /\ cyc.regenTuple.height > 0)
  /\ style["--lg-filter"].kind = "url" =>
       (style["--lg-filter"].ref.width > 0 /\ style["--lg-filter"].ref.height > 0)

\* the number an attribute value should resolve to: its default when the
\* attribute is missing or parseFloat finds no number in it, else the number
ResolvedOrDefault(value, defaultValue) ==
  IF ~value.has \/ ParseFloat(value.s) = NaN
    THEN Num(defaultValue)
    ELSE ParseFloat(value.s)

\* C7: in every cycle that resolves parameters, each of depth, strength,
\* chromatic and blur equals its default (10, 100, 0, 2) when the attribute
\* is missing or unparseable, and the parsed number otherwise.
C7_ParameterDefaults ==
  cyc.tuple.def =>
    /\ cyc.tuple.depth = ResolvedOrDefault(attributes["depth"], DefaultDepth)
    /\ cyc.tuple.strength =
         ResolvedOrDefault(attributes["strength"], DefaultStrength)
    /\ cyc.tuple.chromaticAberration =
         ResolvedOrDefault(attributes["chromatic"], DefaultChromatic)
    /\ cyc.blur = ResolvedOrDefault(attributes["blur"], DefaultBlur)

\* C8: a cycle writes --lg-blur or --lg-filter only with a value different
\* from the value that variable held before the cycle (the value last
\* written to it).
C8_DeduplicatedPublication ==
  [][ cyc' # cyc =>
        \A i \in 1..Len(cyc'.writes) :
          cyc'.writes[i].prop \in {"--lg-blur", "--lg-filter"}
            => cyc'.writes[i].val # style[cyc'.writes[i].prop] ]_vars

\* C9: a regenerating cycle with strength <= 0 and chromaticAberration <= 0
\* publishes 'none'; with the capability flag true and strength > 0 or
\* chromaticAberration > 0 it publishes a url(...) reference to the filter
\* assembled from the cycle's tuple.
C9_FlatFallback ==
  cyc.regenerated =>
    /\ WroteFilterOnce(cyc)
    /\ (AtMostZero(cyc.tuple.strength) /\
        AtMostZero(cyc.tuple.chromaticAberration))
         => style["--lg-filter"] = Text("none")
    /\ (advSupported /\ (GreaterThanZero(cyc.tuple.strength) \/
                         GreaterThanZero(cyc.tuple.chromaticAberration)))
         => /\ style["--lg-filter"].kind = "url"
            /\ style["--lg-filter"].ref.passes[3].scale = cyc.tuple.strength
            /\ style["--lg-filter"].ref.width = cyc.tuple.width
            /\ style["--lg-filter"].ref.height = cyc.tuple.height

\* C9 witness: with the capability flag true, a regenerating cycle with
\* strength 0 and chromatic aberration 0 published 'none'.
C9_Witness ==
  /\ advSupported /\ cyc.regenerated
  /\ cyc.tuple.strength = Num(0)
  /\ cyc.tuple.chromaticAberration = Num(0)
  /\ style["--lg-filter"] = Text("none")

\* C10: with the capability flag false, --lg-filter only ever receives
\* 'none', and every cycle that does not abort leaves --lg-blur published.
C10_CapabilityGate ==
  (constructed /\ ~advSupported) =>
    /\ style["--lg-filter"] \in {Unset, Text("none")}
    /\ \A i \in WritesTo(cyc, "--lg-filter") : cyc.writes[i].val = Text("none")
    /\ cyc.tuple.def => style["--lg-blur"].kind = "text"

\* C10 witness: capability flag false, a regenerating cycle with positive
\* strength published 'none' and the blur.
C10_Witness ==
  /\ constructed /\ ~advSupported
  /\ cyc.regenerated /\ GreaterThanZero(cyc.tuple.strength)
  /\ style["--lg-filter"] = Text("none")
  /\ style["--lg-blur"].kind = "text"

\* the flags held by the instances constructed so far
InstanceFlags ==
  (IF constructed THEN {advSupported} ELSE {}) \cup
  {others[i].advSupported : i \in 1..Len(others)}

\* C12: over any sequence of constructions the probe runs at most once, and
\* only when no flag is stored yet; once stored, the process-wide flag never
\* changes; every instance holds the stored flag, so all instances agree.
C12_ComputeOnceShared ==
  /\ [](/\ probe.calls <= 1
        /\ (probe.calls = 1) = (classAdvSupported # "null")
        /\ (constructed \/ Len(others) > 0) => classAdvSupported # "null"
        /\ InstanceFlags \subseteq {classAdvSupported = "true"})
  /\ [][ /\ classAdvSupported # "null" =>
              (classAdvSupported' = classAdvSupported /\ probe' = probe)
         /\ probe'.calls > probe.calls =>
              (~constructed /\ Len(others) = 0) ]_vars

\* C12 witness: three instances constructed, one probe run, all flags true.
C12_Witness ==
  /\ constructed /\ Len(others) >= 2
  /\ probe.calls = 1
  /\ InstanceFlags = {TRUE}

\* C13: a probe that throws or reports the feature unsupported leaves the
\* flag false, in the class and in every instance; no exception leaves the
\* probe or the constructor, which completes and yields its instance.
C13_ProbeFailureAbsorbed ==
  /\ ~probe.uncaught
  /\ probe.calls >= 1 => (constructed \/ Len(others) > 0)
  /\ probe.outcome \in {"throws", "false"} =>
       (classAdvSupported = "false" /\ InstanceFlags = {FALSE})

\* C13 witness: the probe threw inside the first constructor; the instance
\* exists with its flag false.
C13_Witness ==
  /\ probe.outcome = "throws" /\ probe.calls = 1
  /\ constructed /\ ~advSupported
  /\ classAdvSupported = "false"

\* the least whole number n with n * b >= a (a >= 0, b > 0)
CeilOfQuotient(a, b) == CHOOSE n \in 0..a : n * b >= a /\ (n - 1) * b < a

\* the gradient stops [start, end] that insetting by `inset` pixels of an
\* extent gives: ceil(inset/extent*15) and floor(100 - inset/extent*15)
InsetStops(inset, extent) ==
  IF extent = 0 THEN << Infinity(1), Infinity(-1) >>
  ELSE << Num(CeilOfQuotient(inset * 15, extent)),
          Num(100 - CeilOfQuotient(inset * 15, extent)) >>

\* the published displacement map and the depth it was generated with
PublishedMap == style["--lg-filter"].ref.feImage
PublishedDepth == style["--lg-filter"].ref.feImage.rectX

\* C11 as claimed: the gradients of a published map are inset by its depth:
\* the vertical one runs from ceil(depth/height*15)% to
\* floor(100 - depth/height*15)%, the horizontal one likewise with the
\* width; depth 10 on a 200 x 100 box gives 2% and 1%.
C11_GradientInsetByDepth ==
  (style["--lg-filter"].kind = "url" /\ IsNum(PublishedDepth)) =>
    /\ << PublishedMap.y1, PublishedMap.y2 >> =
         InsetStops(PublishedDepth.v, PublishedMap.height)
    /\ << PublishedMap.x1, PublishedMap.x2 >> =
         InsetStops(PublishedDepth.v, PublishedMap.width)
    /\ (PublishedDepth.v = 10 /\ PublishedMap.width = 200 /\
        PublishedMap.height = 100)
         => (PublishedMap.y1 = Num(2) /\ PublishedMap.x1 = Num(1))

\* C11 amended: the gradients of a published map are inset by the fixed
\* corner radius 16, whatever the depth: the vertical one runs from
\* ceil(16/height*15)% to floor(100 - 16/height*15)%, the horizontal one
\* likewise with the width; a 200 x 100 box gives 3% and 2%.
C11_GradientInsetByRadius ==
  style["--lg-filter"].kind = "url" =>
    /\ << PublishedMap.y1, PublishedMap.y2 >> =
         InsetStops(16, PublishedMap.height)
    /\ << PublishedMap.x1, PublishedMap.x2 >> =
         InsetStops(16, PublishedMap.width)
    /\ (PublishedMap.width = 200 /\ PublishedMap.height = 100)
         => /\ PublishedMap.y1 = Num(3) /\ PublishedMap.y2 = Num(97)
            /\ PublishedMap.x1 = Num(2) /\ PublishedMap.x2 = Num(98)

\* C11 witness: a map published for a 200 x 100 box with depth 10.
C11_Witness ==
  /\ style["--lg-filter"].kind = "url"
  /\ PublishedMap.width = 200 /\ PublishedMap.height = 100
  /\ PublishedDepth = Num(10)
  /\ PublishedMap.y1 = Num(3) /\ PublishedMap.x1 = Num(2)

\* C14: an edit of strength, depth, blur or chromatic runs the update cycle
\* inside the attribute-change callback, with the edited value, whether or
\* not a coalesced recompute is pending: the step leaves the pending flag
\* and the requested frame callbacks as they were, and at its end the latest
\* cycle is a non-forced one that resolved the attributes as edited (or
\* aborted on a zero-size box).
C14_SynchronousAttributeEdit ==
  [][ (\E n \in NumericNames : attributes'[n] # attributes[n]) =>
        /\ pending' = pending
        /\ rafQueue' = rafQueue
        /\ frame' = frame
        /\ ~cyc'.force
        /\ (connected /\ ~ZeroSize(rect)) =>
             /\ ~cyc'.aborted
             /\ cyc'.tuple.depth =
                  GetNumberAttribute(attributes', "depth", DefaultDepth)
             /\ cyc'.tuple.strength =
                  GetNumberAttribute(attributes', "strength", DefaultStrength)
             /\ cyc'.tuple.chromaticAberration =
                  GetNumberAttribute(attributes', "chromatic", DefaultChromatic)
             /\ cyc'.blur = GetNumberAttribute(attributes', "blur", DefaultBlur)
             /\ prev'.key = cyc'.key
        /\ (~connected \/ ZeroSize(rect)) =>
             (cyc'.aborted /\ cyc'.measuredZero /\ prev' = prev) ]_vars

\* C14 witness: a frame callback is pending and the latest cycle is the
\* non-forced regeneration that resolved the edited depth.
C14_Witness ==
  /\ pending /\ rafQueue = 1
  /\ attributes["depth"].has
  /\ ~cyc.force /\ cyc.regenerated
  /\ cyc.fieldsChanged = "one"
  /\ cyc.tuple.depth = Num(5)

\* C15: a non-forced cycle that resolves the same width, height, depth,
\* strength and chromatic aberration as the cycle before and a different
\* blur does not regenerate, does not write --lg-filter and leaves the stored
\* key as it was.
C15_BlurDecoupled ==
  [][ (/\ cyc' # cyc
       /\ cyc.tuple.def /\ cyc'.tuple = cyc.tuple
       /\ cyc'.blur # cyc.blur
       /\ ~cyc'.force) =>
        /\ ~cyc'.regenerated
        /\ WritesTo(cyc', "--lg-filter") = {}
        /\ prev'.key = prev.key
        /\ style'["--lg-filter"] = style["--lg-filter"] ]_vars

\* C15 witness: the latest cycle resolved blur 3 on the tuple whose key is
\* stored together with blur 2; it skipped the regeneration and wrote the
\* blur only.
C15_Witness ==
  /\ cyc.repeat /\ ~cyc.force /\ ~cyc.regenerated
  /\ cyc.blur = Num(3) /\ prev.blur = Num(2)
  /\ prev.key = cyc.key
  /\ WritesTo(cyc, "--lg-blur") # {}
  /\ WritesTo(cyc, "--lg-filter") = {}

\* the filter reference carries the identifier id: in its fragment, in its
\* filter element and in the two gradients of its map
CarriesIdentifier(val, id) ==
  val.kind = "url" =>
    /\ val.ref.fragment = "#displace-" \o id
    /\ val.ref.filterId = "displace-" \o id
    /\ val.ref.feImage.yId = "Y-" \o id
    /\ val.ref.feImage.xId = "X-" \o id

\* C16: the identifier assigned by the constructor never changes, and every
\* filter reference the instance writes or has published carries it: the
\* fragment is '#displace-<id>' and the gradients are 'Y-<id>' and 'X-<id>'.
C16_StableIdentifier ==
  /\ [](constructed =>
          /\ filterId \in IdentityIds
          /\ CarriesIdentifier(style["--lg-filter"], filterId)
          /\ \A i \in WritesTo(cyc, "--lg-filter") :
               CarriesIdentifier(cyc.writes[i].val, filterId))
  /\ [][constructed => (constructed' /\ filterId' = filterId)]_vars

\* C16 witness: a forced regeneration on a box of another height than the
\* one the filter was first generated for republished the filter under the
\* constructor's identifier.
C16_Witness ==
  /\ filterId = "lg-k3x9"
  /\ cyc.force /\ cyc.regenerated /\ cyc.fieldsChanged = "one"
  /\ style["--lg-filter"].kind = "url"
  /\ style["--lg-filter"].ref.fragment = "#displace-lg-k3x9"

\* strength + k * chromaticAberration as JavaScript adds them: a number
\* when both are numbers
ScaleOf(strength, chromaticAberration, k) ==
  IF IsNum(strength) /\ IsNum(chromaticAberration)
    THEN Num(strength.v + k * chromaticAberration.v)
    ELSE NaN

\* the colour matrix that keeps channel c (1 red, 2 green, 3 blue) and the
\* alpha, and clears the rest
Isolates(matrix, c) ==
  /\ Len(matrix) = 4
  /\ \A r \in 1..4 : Len(matrix[r]) = 5
  /\ \A r \in 1..4 : \A k \in 1..5 :
       matrix[r][k] = IF r = k /\ (r = c \/ r = 4) THEN 1 ELSE 0

\* a filter assembled for the given strength and chromatic aberration
ThreePasses(f, strength, chromaticAberration) ==
  /\ Len(f.passes) = 3
  /\ f.passes[1].scale = ScaleOf(strength, chromaticAberration, 2)
  /\ f.passes[2].scale = ScaleOf(strength, chromaticAberration, 1)
  /\ f.passes[3].scale = strength
  /\ \A c \in 1..3 : Isolates(f.passes[c].matrix, c)
  /\ << f.passes[1].result, f.passes[2].result, f.passes[3].result >> =
       << "displacedR", "displacedG", "displacedB" >>
  /\ Len(f.blends) = 2
  /\ \A b \in 1..2 : f.blends[b].mode = "screen"
  /\ f.blends[1].in = "displacedR" /\ f.blends[1].in2 = "displacedG"
  /\ f.blends[2].in = "previous" /\ f.blends[2].in2 = "displacedB"

\* C17: the filter a regenerating cycle publishes has exactly three
\* displacement passes with scales strength + 2*chromaticAberration,
\* strength + chromaticAberration and strength, each followed by a colour
\* matrix that keeps the red, the green and the blue channel (and the alpha),
\* in that order, and two screen blends that recombine them.
C17_ChromaticPassScales ==
  (cyc.regenerated /\ style["--lg-filter"].kind = "url") =>
    ThreePasses(style["--lg-filter"].ref, cyc.tuple.strength,
                cyc.tuple.chromaticAberration)

\* C17 witness: a filter published for strength 7 and chromatic aberration
\* 7, with scales 21, 14 and 7.
C17_Witness ==
  /\ cyc.regenerated /\ style["--lg-filter"].kind = "url"
  /\ cyc.tuple.strength = Num(7) /\ cyc.tuple.chromaticAberration = Num(7)
  /\ style["--lg-filter"].ref.passes[1].scale = Num(21)
  /\ style["--lg-filter"].ref.passes[2].scale = Num(14)
  /\ style["--lg-filter"].ref.passes[3].scale = Num(7)

\* C18: while the host is disabled, a click that reaches the surface is
\* handled, default-prevented, stopped and not forwarded to the host, and no
\* keydown (Enter, Space or other; with or without href / interactive)
\* dispatches a click on the surface; when not disabled, Enter or Space on an
\* interactive host without href dispatches exactly one click on the surface.
C18_DisabledBlocksInteraction ==
  /\ (event.type = "click" /\ event.disabled) =>
       /\ event.handled
       /\ event.defaultPrevented /\ event.propagationStopped
       /\ event.hostClicks = 0
  /\ (event.type = "keydown" /\ event.disabled) =>
       (event.surfaceClicks = 0 /\ event.hostClicks = 0)
  /\ (/\ event.type = "keydown" /\ ~event.disabled
      /\ event.interactive /\ ~event.href
      /\ event.key \in {"Enter", " "}) =>
       (event.handled /\ event.surfaceClicks = 1)

\* C18 witness: Enter pressed on a disabled host that is interactive and
\* carries href; the handler ran and dispatched nothing.
C18_Witness ==
  /\ event.type = "keydown" /\ event.key = "Enter" /\ event.handled
  /\ event.disabled /\ event.interactive /\ event.href
  /\ event.surfaceClicks = 0

\* C19: after every cycle that does not abort on zero size, the published
\* --lg-blur is the blur that cycle resolved from the blur attribute.
C19_PublishedBlurCurrent ==
  (cyc.tuple.def /\ ~cyc.aborted) =>
    style["--lg-blur"] = Text(NumberToString(cyc.blur) \o "px")

\* the --lg-filter value is the one generated for the tuple t by an instance
\* with the capability flag `supported`: 'none', or a reference to a filter
\* of t's size, depth, strength and chromatic aberration
PublishedFor(val, t, supported) ==
  IF supported /\ (GreaterThanZero(t.strength) \/
                   GreaterThanZero(t.chromaticAberration))
    THEN /\ val.kind = "url"
         /\ val.ref.width = t.width /\ val.ref.height = t.height
         /\ val.ref.feImage.width = t.width
         /\ val.ref.feImage.height = t.height
         /\ val.ref.feImage.rectX = t.depth
         /\ val.ref.passes[3].scale = t.strength
         /\ val.ref.passes[2].scale =
              ScaleOf(t.strength, t.chromaticAberration, 1)
    ELSE val = Text("none")

\* C20: a cycle stores a key exactly when it writes --lg-filter, once, with
\* the value generated from the tuple the key encodes; so whenever a key is
\* stored, it is the key of the tuple the published --lg-filter was
\* generated from, and without a stored key nothing is published.
C20_CachePublicationCoherent ==
  /\ cyc.regenerated = (WritesTo(cyc, "--lg-filter") # {})
  /\ cyc.regenerated =>
       /\ WroteFilterOnce(cyc)
       /\ prev.key = cyc.key
       /\ cyc.regenTuple = cyc.tuple
       /\ \A i \in WritesTo(cyc, "--lg-filter") :
            PublishedFor(cyc.writes[i].val, cyc.tuple, advSupported)
  /\ ~cyc.regenerated => ~cyc.prevChanged
  /\ prev.key.def =>
       /\ cyc.regenTuple.def
       /\ prev.key.s = CacheKey(cyc.regenTuple.width, cyc.regenTuple.height,
                                cyc.regenTuple.depth, cyc.regenTuple.strength,
                                cyc.regenTuple.chromaticAberration)
       /\ PublishedFor(style["--lg-filter"], cyc.regenTuple, advSupported)
  /\ ~prev.key.def => style["--lg-filter"] = Unset

\* C20 witness: a filter is published; a later regeneration for strength 0
\* replaced it by 'none' and stored the key of that tuple.
C20_Witness ==
  /\ advSupported /\ cyc.regenerated /\ ~cyc.force
  /\ cyc.fieldsChanged = "one"
  /\ cyc.tuple.strength = Num(0)
  /\ prev.key = cyc.key
  /\ style["--lg-filter"] = Text("none")

\* the latest cycle is a non-forced one that measured the box the element
\* has now: aborted if that box is zero-size, else resolved to its rounded
\* size with the key stored
CycleOnCurrentBox ==
  /\ ~cyc.force
  /\ cyc.aborted = ZeroSize(BoundingClientRect(connected, rect))
  /\ ~cyc.aborted =>
       /\ cyc.tuple.width = MathRound(rect.width)
       /\ cyc.tuple.height = MathRound(rect.height)
       /\ prev.key = cyc.key

\* C21: with every requested animation frame eventually delivered, no resize
\* signal is lost.  The pending flag is true exactly while one frame callback
\* is outstanding, and never more than one is; a signal received leaves a
\* callback outstanding (its own, or the one already scheduled); every
\* signal is eventually followed by the frame that runs the callback, whose
\* update cycle measures the box as it is then; and the flag always
\* eventually returns to false.
C21_NoLostResize ==
  /\ [](rafQueue \in {0, 1} /\ pending = (rafQueue = 1))
  /\ [](frame.signals > 0 => (pending /\ rafQueue = 1))
  /\ [][ (frame.signals > 0 /\ frame'.signals = 0) =>
           (~pending' /\ rafQueue' = 0 /\ CycleOnCurrentBox') ]_vars
  /\ (frame.signals > 0) ~> (frame.signals = 0)
  /\ pending ~> ~pending

\* C21 witness: two signals were received, the second was dropped, and the
\* element was disconnected with the one callback still outstanding.
C21_Witness ==
  /\ frame.signals = 2 /\ pending /\ rafQueue = 1
  /\ ~connected /\ resizeObserver = "disconnected"

====
